---- MODULE Spec2Model ----
(***************************************************************************)
(* The e-paper display subsystem of weather_eink_pizero:                   *)
(*   - DisplayController (src/src/display_controller.py): change           *)
(*     detection by image hash, partial/full refresh policy, lazy driver   *)
(*     loading, clear and sleep;                                           *)
(*   - EPD (src/lib/waveshare_epd/epd4in26.py): the command/data stream    *)
(*     each driver call puts on the bus.                                   *)
(* One action is one public call of DisplayController, with every driver   *)
(* call it makes.  The byte stream of a driver call is a sequence of       *)
(* events; an SPI write may raise and a ReadBusy may never return, and     *)
(* both are chosen nondeterministically per call.                          *)
(* Six specifications share the variables:                                 *)
(*   Spec     the calls of DisplayController (update, clear, sleep);       *)
(*   SpecEPD  the public methods of EPD called directly, call by call;     *)
(*   SpecIO   send_command, send_data, send_data2 and ReadBusy line by     *)
(*            line, with the pins (SpecIOFair: every line runs in the end).*)
(*   SpecFn   the buffer functions getbuffer and getbuffer_4Gray and the   *)
(*            window registers (SetWindow, SetCursor), applied to inputs;  *)
(*   SpecApp  the main loop of WeatherEInkApp (src/main.py) step by step,  *)
(*            with the signal handler between any two steps (SpecAppFair:  *)
(*            every blocking call of the main thread returns);             *)
(*   SpecWeather  get_weather of WeatherAPIClient (src/src/weather_api.py) *)
(*            call by call, with the clock and the two caches.             *)
(***************************************************************************)
EXTENDS Integers, Sequences, FiniteSets, TLC

\* ------------------------------------------------------------------ bounds
NumImages == 2      \* distinct rendered images
MaxLimit == 2       \* largest configured partial_refresh_limit
MaxBusy == 3        \* most samples the busy pin stays busy before it goes idle
PlaneLen == 2       \* bytes of one bitplane (48000 on the panel); a 4-gray image has twice as many
WidthBytes == 1     \* bytes of one row of a monochrome buffer (100 on the panel)
PanelRows == 2      \* rows of the buffers (480 on the panel)
MaxErrors == 13     \* largest error_count followed (the backoff is capped from 12 on)
MaxTicks == 2       \* most 10 s sleeps between two updates
CacheDuration == 3  \* weather.cache_duration, in seconds (1800 by default)
MaxRetries == 3     \* largest error_handling.max_retries (3 by default)
MaxTime == 8        \* the clock is followed up to here, in seconds

\* --------------------------------------------------------- program constants
EPD_WIDTH == 800
EPD_HEIGHT == 480
NoHash == 0         \* last_image_hash = None

Images == 1..NumImages

VARIABLES
    display_type,           \* config: display.type
    partial_refresh,        \* config: display.partial_refresh
    partial_refresh_limit,  \* config: display.partial_refresh_limit
    last_image_hash,        \* DisplayController.last_image_hash (NoHash = None)
    partial_refresh_count,  \* DisplayController.partial_refresh_count
    display_driver,         \* "None", "EPD", "EPD2in13" or "Mock"
    drvAttrs,               \* the method names hasattr() finds on the driver
    ready,                  \* a ReadBusy returned since the last reset / 0x20
    unreadyWrites,          \* RAM writes (0x24/0x26) of the last call sent while ~ready
    hung,                   \* the process is stuck inside ReadBusy
    asleep,                 \* EPD.sleep() has run and no hardware reset followed
    sentAsleep,             \* command/data transfers of the last call sent while asleep
    streak,                 \* successful Partial updates in a row since count was 0 (-1: broken)
    last,                   \* what the last call did (history)
    io,                     \* the pins and the running bus primitive, line by line
    epd,                    \* the EPD object called directly: its last call and session
    fn,                     \* an argument and the result of a pure EPD function applied to it
    app,                    \* WeatherEInkApp: its fields and where run() is
    weather                 \* WeatherAPIClient: the clock, its caches and its last call

controller == <<display_type, partial_refresh, partial_refresh_limit, last_image_hash,
                partial_refresh_count, display_driver, drvAttrs, ready,
                unreadyWrites, hung, asleep, sentAsleep, streak, last>>

\* the driver on its own, below the controller
lower == <<io, epd, fn, app, weather>>

vars == <<controller, lower>>

config == <<display_type, partial_refresh, partial_refresh_limit>>

\* ------------------------------------------------------------ bus events
send_command(command) == <<[t |-> "cmd", v |-> command]>>
send_data(data) == <<[t |-> "data", v |-> data]>>
send_data2(data) == <<[t |-> "data2", v |-> data]>>
reset == <<[t |-> "rst", v |-> 0]>>
ReadBusy == <<[t |-> "busy", v |-> 0]>>
module_exit == <<[t |-> "exit", v |-> 0]>>
\* the byte stream of a driver that is not part of the sources: one opaque transfer
ExternalCall == <<[t |-> "ext", v |-> 0]>>

TurnOnDisplay ==
    send_command(34) \o send_data(247) \o send_command(32) \o ReadBusy

TurnOnDisplay_Fast ==
    send_command(34) \o send_data(199) \o send_command(32) \o ReadBusy

TurnOnDisplay_Part ==
    send_command(34) \o send_data(255) \o send_command(32) \o ReadBusy

TurnOnDisplay_4GRAY_NoWait ==
    send_command(34) \o send_data(199) \o send_command(32)
TurnOnDisplay_4GRAY ==
    send_command(34) \o send_data(199) \o send_command(32) \o ReadBusy

SetWindow_NarrowX(x_start, y_start, x_end, y_end) ==
    send_command(68)
    \o send_data(x_start % 256) \o send_data((x_start \div 256) % 2)
    \o send_data(x_end % 256) \o send_data((x_end \div 256) % 2)
    \o send_command(69)
    \o send_data(y_start % 256) \o send_data((y_start \div 256) % 256)
    \o send_data(y_end % 256) \o send_data((y_end \div 256) % 256)
SetWindow(x_start, y_start, x_end, y_end) ==
    send_command(68)
    \o send_data(x_start % 256) \o send_data((x_start \div 256) % 4)
    \o send_data(x_end % 256) \o send_data((x_end \div 256) % 4)
    \o send_command(69)
    \o send_data(y_start % 256) \o send_data((y_start \div 256) % 256)
    \o send_data(y_end % 256) \o send_data((y_end \div 256) % 256)

SetCursor(x, y) ==
    send_command(78)
    \o send_data(x % 256) \o send_data((x \div 256) % 4)
    \o send_command(79)
    \o send_data(y % 256) \o send_data((y \div 256) % 256)

\* EPD.init after module_init() returned 0
init ==
    reset \o ReadBusy
    \o send_command(18) \o ReadBusy
    \o send_command(24) \o send_data(128)
    \o send_command(12) \o send_data(174) \o send_data(199) \o send_data(195)
        \o send_data(192) \o send_data(128)
    \o send_command(1) \o send_data((EPD_HEIGHT - 1) % 256)
        \o send_data((EPD_HEIGHT - 1) \div 256) \o send_data(2)
    \o send_command(60) \o send_data(1)
    \o send_command(17) \o send_data(1)
    \o SetWindow(0, EPD_HEIGHT - 1, EPD_WIDTH - 1, 0)
    \o SetCursor(0, 0)
    \o ReadBusy

init_Fast ==
    reset \o ReadBusy
    \o send_command(18) \o ReadBusy
    \o send_command(24) \o send_data(128)
    \o send_command(12) \o send_data(174) \o send_data(199) \o send_data(195)
        \o send_data(192) \o send_data(128)
    \o send_command(1) \o send_data((EPD_HEIGHT - 1) % 256)
        \o send_data((EPD_HEIGHT - 1) \div 256) \o send_data(2)
    \o send_command(60) \o send_data(1)
    \o send_command(17) \o send_data(1)
    \o SetWindow(0, EPD_HEIGHT - 1, EPD_WIDTH - 1, 0)
    \o SetCursor(0, 0)
    \o ReadBusy
    \o send_command(26) \o send_data(90)
    \o send_command(34) \o send_data(145) \o send_command(32)
    \o ReadBusy

LUT_DATA_4Gray ==
    <<128, 72, 74, 34, 0, 0, 0, 0, 0, 0, 10, 72, 104, 0,
      0, 0, 0, 0, 0, 0, 136, 72, 96, 0, 0, 0, 0, 0,
      0, 0, 168, 72, 69, 0, 0, 0, 0, 0, 0, 0, 0, 0,
      0, 0, 0, 0, 0, 0, 0, 0, 7, 30, 28, 2, 0, 5,
      1, 5, 1, 2, 8, 1, 1, 4, 4, 0, 2, 0, 2, 1,
      0, 0, 0, 0, 0, 0, 0, 0, 0, 0, 0, 0, 0, 0,
      0, 0, 0, 0, 0, 0, 0, 0, 0, 0, 0, 0, 0, 0,
      0, 1, 34, 34, 34, 34, 34, 23, 65, 168, 50, 48, 0, 0>>

\* for count in range(0, 105): self.send_data(self.LUT_DATA_4Gray[count])
RECURSIVE SendTable(_, _)
SendTable(from, to) ==
    IF from > to THEN <<>>
    ELSE send_data(LUT_DATA_4Gray[from + 1]) \o SendTable(from + 1, to)

Lut ==
    send_command(50) \o SendTable(0, 104)
    \o send_command(3) \o send_data(LUT_DATA_4Gray[105 + 1])
    \o send_command(4) \o send_data(LUT_DATA_4Gray[106 + 1])
        \o send_data(LUT_DATA_4Gray[107 + 1]) \o send_data(LUT_DATA_4Gray[108 + 1])
    \o send_command(44) \o send_data(LUT_DATA_4Gray[109 + 1])

init_4GRAY_NoLut == init
init_4GRAY ==
    reset \o ReadBusy
    \o send_command(18) \o ReadBusy
    \o send_command(24) \o send_data(128)
    \o send_command(12) \o send_data(174) \o send_data(199) \o send_data(195)
        \o send_data(192) \o send_data(128)
    \o send_command(1) \o send_data((EPD_HEIGHT - 1) % 256)
        \o send_data((EPD_HEIGHT - 1) \div 256) \o send_data(2)
    \o send_command(60) \o send_data(1)
    \o send_command(17) \o send_data(1)
    \o SetWindow(0, EPD_HEIGHT - 1, EPD_WIDTH - 1, 0)
    \o SetCursor(0, 0)
    \o ReadBusy
    \o Lut

display_ActivateFirst(image) ==
    TurnOnDisplay \o send_command(36) \o send_data2(image)

display(image) ==
    send_command(36) \o send_data2(image) \o TurnOnDisplay

display_Base(image) ==
    send_command(36) \o send_data2(image)
    \o send_command(38) \o send_data2(image)
    \o TurnOnDisplay

display_Fast(image) ==
    send_command(36) \o send_data2(image) \o TurnOnDisplay_Fast

display_Partial(Image) ==
    reset
    \o send_command(24) \o send_data(128)
    \o send_command(60) \o send_data(128)
    \o send_command(1) \o send_data((EPD_HEIGHT - 1) % 256)
        \o send_data((EPD_HEIGHT - 1) \div 256)
    \o send_command(17) \o send_data(1)
    \o SetWindow(0, EPD_HEIGHT - 1, EPD_WIDTH - 1, 0)
    \o SetCursor(0, 0)
    \o send_command(36) \o send_data2(Image)
    \o TurnOnDisplay_Part

\* temp2 = temp1 & 0xC0 after q shifts of temp1 by two bits: pixel q of the byte,
\* as 0..3 for 0x00, 0x40, 0x80, 0xC0
Pixel_LowFirst(byte, q) == (byte \div (4 ^ q)) % 4
Pixel(byte, q) == (byte \div (4 ^ (3 - q))) % 4

\* the if/elif chains of the first (0x24) and the second (0x26) loop
PlaneBit_WhiteOnly(plane, temp2) == IF temp2 = 3 THEN 0 ELSE 1
PlaneBit_SamePlanes(plane, temp2) == IF temp2 \in {3, 1} THEN 0 ELSE 1
PlaneBit(plane, temp2) ==
    IF plane = 1
      THEN (IF temp2 = 3 THEN 0 ELSE IF temp2 = 0 THEN 1 ELSE IF temp2 = 2 THEN 1 ELSE 0)
      ELSE (IF temp2 = 3 THEN 0 ELSE IF temp2 = 0 THEN 1 ELSE IF temp2 = 2 THEN 0 ELSE 1)

\* temp3 after pixels n..7 of the pair image[i*2], image[i*2+1] (i from 0)
RECURSIVE PackFrom(_, _, _, _, _)
PackFrom(plane, image, i, n, temp3) ==
    IF n = 8 THEN temp3
    ELSE LET temp1 == image[i * 2 + (n \div 4) + 1]
             t == temp3 + PlaneBit(plane, Pixel(temp1, n % 4))
         IN  PackFrom(plane, image, i, n + 1, IF n # 7 THEN t * 2 ELSE t)

\* for i in range(0, 48000): ... self.send_data(temp3)
RECURSIVE SendPlane(_, _, _)
SendPlane(plane, image, i) ==
    IF i >= PlaneLen THEN <<>>
    ELSE send_data(PackFrom(plane, image, i, 0, 0)) \o SendPlane(plane, image, i + 1)

display_4Gray_EarlyActivation(image) ==
    send_command(36) \o SendPlane(1, image, 0)
    \o TurnOnDisplay_4GRAY
    \o send_command(38) \o SendPlane(2, image, 0)
display_4Gray(image) ==
    send_command(36) \o SendPlane(1, image, 0)
    \o send_command(38) \o SendPlane(2, image, 0)
    \o TurnOnDisplay_4GRAY

WhiteBuffer == [enc |-> "white", image |-> 0]

Clear ==
    send_command(36) \o send_data2(WhiteBuffer)
    \o send_command(38) \o send_data2(WhiteBuffer)
    \o TurnOnDisplay

sleep ==
    send_command(16) \o send_data(1) \o module_exit


\* ------------------------------------------------- how a driver call ends
\* f = 0: every transfer of the call succeeds and every ReadBusy returns.
\* f > 0: event f is where the call stops: an SPI write raises (nothing of it
\* is sent), or a ReadBusy never sees the busy pin idle and never returns.
CanStopAt(trace, f) ==
    f = 0 \/ (f \in 1..Len(trace) /\ trace[f].t \in {"cmd", "data", "data2", "ext", "busy"})

Stops(trace) == {f \in 0..Len(trace) : CanStopAt(trace, f)}

Exec(trace, f) ==
    [wire |-> IF f = 0 THEN trace ELSE SubSeq(trace, 1, f - 1),
     out  |-> IF f = 0 THEN "ok" ELSE IF trace[f].t = "busy" THEN "hung" ELSE "raised"]

\* the Ready state of the driver session, followed along a stream of events:
\* a hardware reset or the master activation (0x20) leaves it, a ReadBusy that
\* returns enters it; bad counts the RAM writes (0x24, 0x26) sent outside it
RECURSIVE ScanFrom(_, _, _, _)
ScanFrom(trace, i, rdy, bad) ==
    IF i > Len(trace) THEN [ready |-> rdy, bad |-> bad]
    ELSE LET e == trace[i]
             isRamWrite == e.t = "cmd" /\ e.v \in {36, 38}
             isActivate == e.t = "cmd" /\ e.v = 32
         IN ScanFrom(trace, i + 1,
                     IF e.t = "rst" \/ isActivate THEN FALSE
                     ELSE IF e.t = "busy" THEN TRUE ELSE rdy,
                     IF isRamWrite /\ ~rdy THEN bad + 1 ELSE bad)

Scan(trace, rdy) == ScanFrom(trace, 1, rdy, 0)

\* deep sleep, followed along a stream of events: sleep() has run when it reaches
\* module_exit, a hardware reset wakes the panel; sent counts the command and
\* data transfers put on the bus in between
RECURSIVE SleepScanFrom(_, _, _, _)
SleepScanFrom(trace, i, asl, sent) ==
    IF i > Len(trace) THEN [asleep |-> asl, sent |-> sent]
    ELSE LET e == trace[i]
         IN SleepScanFrom(trace, i + 1,
                          IF e.t = "rst" THEN FALSE
                          ELSE IF e.t = "exit" THEN TRUE ELSE asl,
                          IF asl /\ e.t \in {"cmd", "data", "data2"}
                            THEN sent + 1 ELSE sent)

SleepScan(trace, asl) == SleepScanFrom(trace, 1, asl, 0)

\* ------------------------------------------------------------ driver kinds
DriverKinds == {"EPD", "EPD2in13", "Mock"}

EPDAttrs == {"reset", "send_command", "send_data", "send_data2", "ReadBusy",
             "init", "init_Fast", "init_4GRAY", "Lut", "getbuffer", "getbuffer_4Gray",
             "display", "display_Base", "display_Fast", "display_Partial",
             "display_4Gray", "Clear", "sleep"}

MockAttrs == {"init", "display", "display_partial", "clear", "sleep"}

\* epd2in13_v2.EPD is loaded by name and is not part of the sources: whether it
\* offers a partial-refresh method is not known
EPD2in13Attrs(hasPartial) ==
    {"init", "getbuffer", "display", "Clear", "sleep"}
    \cup (IF hasPartial THEN {"display_Partial"} ELSE {})

\* the stream one call of a driver method puts on the bus
DriverCall(drv, stream) ==
    IF drv = "EPD" THEN stream ELSE IF drv = "EPD2in13" THEN ExternalCall ELSE <<>>

image_to_buffer(drv, image) ==
    [enc |-> IF drv # "Mock" THEN "getbuffer" ELSE "tobytes", image |-> image]

Methods == {"init", "display", "display_Partial", "display_partial", "Clear", "clear", "sleep"}

MethodStream(drv, method, image) ==
    CASE method = "init" -> DriverCall(drv, init)
      [] method = "display" -> DriverCall(drv, display(image_to_buffer(drv, image)))
      [] method = "display_Partial" ->
            DriverCall(drv, display_Partial(image_to_buffer(drv, image)))
      [] method = "Clear" -> DriverCall(drv, Clear)
      [] method = "sleep" -> DriverCall(drv, sleep)
      [] OTHER -> <<>>

\* every way a call of a driver method can end: for each stop point, how the
\* call ends and what it does to the Ready state (tabulated once)
Run ==
    [drv \in DriverKinds, method \in Methods, image \in 0..NumImages |->
        LET stream == MethodStream(drv, method, image)
        IN  [f \in Stops(stream) |->
                [out |-> Exec(stream, f).out,
                 scan |-> [rdy \in BOOLEAN |-> Scan(Exec(stream, f).wire, rdy)],
                 slp |-> [asl \in BOOLEAN |-> SleepScan(Exec(stream, f).wire, asl)]]]]

NoRun == [out |-> "none", scan |-> [rdy \in BOOLEAN |-> [ready |-> rdy, bad |-> 0]],
          slp |-> [asl \in BOOLEAN |-> [asleep |-> asl, sent |-> 0]]]

\* --------------------------------------------- the bus primitives, by line
\* epdconfig is not part of the sources: the levels its module_init leaves on
\* the pins are not known
IOIdle == [call |-> "none", arg |-> 0, pc |-> "done", out |-> "none",
           dc |-> 0, cs |-> 1, log |-> <<>>, busyFor |-> 0, reads |-> 0, busy |-> 0]

SendCalls == {"send_command", "send_data", "send_data2"}

\* the bytes and buffers passed to the primitives (0x24, 0xF7; one frame buffer)
IOArgs(call) == IF call = "send_data2" THEN {"buffer"} ELSE {36, 247}

\* the busy pin never goes idle
Forever == -1
BusyBehaviours == 0..MaxBusy \cup {Forever}
\* reads are counted up to here
MaxReads == MaxBusy + 2

\* the level of the busy pin at its k-th sample, when it stays busy for n samples
digital_read(n, k) == IF n = Forever \/ k <= n THEN 1 ELSE 0

\* digital_write(dc_pin, ...) of send_command / send_data / send_data2
DcLevel_AlwaysData(call) == 1
DcLevel(call) == IF call = "send_command" THEN 0 ELSE 1

\* while(busy == 1)
KeepPolling_Never(busy) == FALSE
KeepPolling(busy) == busy = 1

\* ------------------------------------------------- the EPD object, by call
EPDInits == {"init", "init_Fast", "init_4GRAY"}
EPDDisplays == {"display", "display_Base", "display_Fast", "display_Partial"}
EPDMethods == EPDInits \cup EPDDisplays \cup {"display_4Gray", "Clear", "sleep"}

\* 4-gray buffers (getbuffer_4Gray output): all white, the four levels
\* 00 01 10 11 in every byte, and 11 10 01 00 alternating with black
GrayImages ==
    {[k \in 1..2 * PlaneLen |-> 255], [k \in 1..2 * PlaneLen |-> 27],
     [k \in 1..2 * PlaneLen |-> IF k % 2 = 1 THEN 228 ELSE 0]}

EPDArgs(method) ==
    IF method = "display_4Gray" THEN GrayImages
    ELSE IF method \in EPDDisplays THEN Images ELSE {0}

EPDStream(method, arg) ==
    CASE method = "init" -> init
      [] method = "init_Fast" -> init_Fast
      [] method = "init_4GRAY" -> init_4GRAY
      [] method = "display" -> display(image_to_buffer("EPD", arg))
      [] method = "display_Base" -> display_Base(image_to_buffer("EPD", arg))
      [] method = "display_Fast" -> display_Fast(image_to_buffer("EPD", arg))
      [] method = "display_Partial" -> display_Partial(image_to_buffer("EPD", arg))
      [] method = "display_4Gray" -> display_4Gray(arg)
      [] method = "Clear" -> Clear
      [] method = "sleep" -> sleep
      [] OTHER -> <<>>

\* f = -1: epdconfig.module_init() != 0, the init method returns -1 at once
EPDStops(method, arg) ==
    Stops(EPDStream(method, arg)) \cup (IF method \in EPDInits THEN {-1} ELSE {})

EPDExec(method, arg, f) ==
    IF f = -1 THEN [wire |-> <<>>, out |-> "failed"]
    ELSE Exec(EPDStream(method, arg), f)

\* where a complete Lut() call starts in a stream of events
LutAt(w) ==
    {i \in 1..Len(w) - Len(Lut) + 1 :
        w[i] = Lut[1] /\ SubSeq(w, i, i + Len(Lut) - 1) = Lut}

\* what a call leaves behind in the session, whatever the session was
EPDEffect(method, arg, f) ==
    LET x == EPDExec(method, arg, f)
        w == x.wire
        rsts == {i \in 1..Len(w) : w[i].t = "rst"}
        luts == LutAt(w)
    IN  [out |-> x.out,
         hasReset |-> rsts # {},
         luts |-> Cardinality(luts),
         lutAfterReset |-> \E i \in luts : \A r \in rsts : r < i,
         exit |-> \E i \in 1..Len(w) : w[i].t = "exit"]

EPDRun ==
    [method \in EPDMethods |->
        [arg \in EPDArgs(method) |->
            [f \in EPDStops(method, arg) |-> EPDEffect(method, arg, f)]]]

EPDNew == [method |-> "none", arg |-> 0, f |-> 0, out |-> "none",
           open |-> FALSE, mode |-> "none", lut |-> FALSE, lutLoads |-> 0,
           preMode |-> "none", preLut |-> FALSE]

\* ------------------------------------------ the pure functions of the EPD
\* the panel of the buffer functions: self.width (a multiple of 8, 800 on the
\* panel) and self.height (480 on the panel)
width == 8 * WidthBytes
height == PanelRows

\* an image after image.convert(): its size, and its pixels, which all have the
\* value base except the pixel at, which has the value val
Px(image, x, y) == IF <<x, y>> = image.at THEN image.val ELSE image.base

ImageSizes == {<<width, height>>, <<height, width>>,
               <<width, height + 1>>, <<height, height>>}

\* mode "1" pixels are 0 (black) or 255; mode "L" pixels are luminances
Luminances(mode) == IF mode = "1" THEN {0, 255} ELSE {0, 64, 128, 192, 200, 255}

ImagesOf(m, sz) ==
    {[mode |-> m, size |-> sz, base |-> b, at |-> a, val |-> v] :
        b \in Luminances(m), v \in Luminances(m),
        a \in (0..sz[1] - 1) \X (0..sz[2] - 1)}

TestImages == UNION {ImagesOf(m, sz) : m \in {"1", "L"}, sz \in ImageSizes}

\* the byte of buf and the bit in it (0 = most significant) that a black pixel
\* clears: buf[int((x + y * self.width) / 8)] &= ~(0x80 >> (x % 8)), and in the
\* other orientation the same with newx, newy and 0x80 >> (y % 8)
HorizontalCell_LsbFirst(x, y) == <<(x + y * width) \div 8, 7 - (x % 8)>>
HorizontalCell(x, y) == <<(x + y * width) \div 8, x % 8>>

VerticalCell_XBit(x, y) == <<(y + (height - x - 1) * width) \div 8, x % 8>>
VerticalCell(x, y) ==
    LET newx == y
        newy == height - x - 1
    IN  <<(newx + newy * width) \div 8, y % 8>>

\* 0xFF with the bits of the set cleared
ClearedByte(bits) ==
    LET m(k) == IF k \in bits THEN 2 ^ (7 - k) ELSE 0
    IN  255 - (m(0) + m(1) + m(2) + m(3) + m(4) + m(5) + m(6) + m(7))

\* EPD.getbuffer(image), image_monocolor being the image; a size that is
\* neither the panel's nor its transpose leaves buf as it was created
getbuffer(image) ==
    LET imwidth == image.size[1]
        imheight == image.size[2]
        black == {p \in (0..imwidth - 1) \X (0..imheight - 1) : Px(image, p[1], p[2]) = 0}
        cells == IF imwidth = width /\ imheight = height
                   THEN {HorizontalCell(p[1], p[2]) : p \in black}
                 ELSE IF imwidth = height /\ imheight = width
                   THEN {VerticalCell(p[1], p[2]) : p \in black}
                 ELSE {}
    IN  [b \in 0..(width \div 8) * height - 1 |->
            ClearedByte({c[2] : c \in {d \in cells : d[1] = b}})]

\* if(pixels[x, y] == 0xC0): pixels[x, y] = 0x80 elif (== 0x80): = 0x40
Bucket_NoRemap(p) == p
Bucket(p) == IF p = 192 THEN 128 ELSE IF p = 128 THEN 64 ELSE p

\* (a & 0xc0) | (b & 0xc0) >> 2 | (c & 0xc0) >> 4 | (d & 0xc0) >> 6
Pack4(a, b, c, d) ==
    (a \div 64) * 64 + (b \div 64) * 16 + (c \div 64) * 4 + (d \div 64)

\* EPD.getbuffer_4Gray(image): the byte written when i % 4 = 0, that is at
\* x % 4 = 3 in the first branch and at y % 4 = 3 in the second
getbuffer_4Gray(image) ==
    LET imwidth == image.size[1]
        imheight == image.size[2]
        p(x, y) == Bucket(Px(image, x, y))
    IN  [b \in 0..(width \div 4) * height - 1 |->
            IF imwidth = width /\ imheight = height
              THEN LET y == (4 * b) \div width
                       x == ((4 * b) % width) + 3
                   IN  Pack4(p(x - 3, y), p(x - 2, y), p(x - 1, y), p(x, y))
            ELSE IF imwidth = height /\ imheight = width
              THEN LET newy == (4 * b) \div width
                       y == ((4 * b) % width) + 3
                       x == height - newy - 1
                   IN  Pack4(p(x, y - 3), p(x, y - 2), p(x, y - 1), p(x, y))
            ELSE 255]

\* the coordinates SetWindow and SetCursor are applied to
XValues == {0, 1, 255, 256, 799, 1023}
YValues == {0, 255, 256, 479, 65535}

\* ------------------------------------------------ the application (main.py)
\* the configured quiet hours (start, end): the defaults 23 and 7, and two
\* other settings
QuietConfigs == {<<23, 7>>, <<1, 5>>, <<22, 6>>}
Hours == 0..23
NoHour == -1

\* WeatherEInkApp after __init__ with quiet hours q: pc is the position of the
\* main thread, phase the progress of the update_display call in flight
\* (none, ram: frame written to panel RAM, activated: 0x20 sent and the
\* busy-wait running), outcome how the last update_display call ended,
\* ticks the 10 s sleeps left before the next update, slept whether
\* shutdown() has sent the deep-sleep command and released the bus, and
\* signalledAt the phase at which the last signal arrived, current_hour
\* the hour _is_quiet_hours read last, and backoff the seconds of the backoff
\* sleep after the last cycle (0: none)
AppOf(q) ==
    [pc |-> "new", running |-> FALSE, error_count |-> 0, initial |-> FALSE,
     success |-> FALSE, phase |-> "none", outcome |-> "none", ticks |-> 0,
     quiet_hours_start |-> q[1], quiet_hours_end |-> q[2],
     current_hour |-> NoHour, backoff |-> 0, slept |-> FALSE,
     signalledAt |-> "never"]

AppNew == AppOf(<<23, 7>>)

FnNone == [kind |-> "none", arg |-> 0, op |-> "none", out |-> "none", result |-> 0]

\* --------------------------------------- the weather client (weather_api.py)
\* the providers _fetch_from_api knows, and one it does not
Providers == {"openweathermap", "weatherapi"}
\* how one provider request ends: it returns data, it raises a requests
\* exception (Timeout, ConnectionError, RequestException), or it raises
\* anything else
Outcomes == {"data", "retry", "error"}

\* WeatherAPIClient after __init__: now is the clock, file the timestamps in
\* the cache file (none or one), mem the memory cache (none or one entry with
\* the timestamp of its data and the time its TTL ends), ret the last
\* get_weather call: the level that answered, the timestamp of the data and
\* the time of the return, whether a cache held valid data at the call, and
\* what _fetch_from_api did
WeatherOf(api_key, provider, retry_enabled, max_retries, retry_backoff, file) ==
    [now |-> 0, file |-> file, mem |-> {},
     api_key |-> api_key, provider |-> provider, retry_enabled |-> retry_enabled,
     max_retries |-> max_retries, retry_backoff |-> retry_backoff,
     ret |-> [level |-> "none", timestamp |-> 0, at |-> 0,
              cached |-> FALSE, events |-> <<>>]]

WeatherNew == WeatherOf(TRUE, "openweathermap", TRUE, MaxRetries, 2, {})

\* max_retries = error_config.get('max_retries', 3) if retry_enabled else 1
max_retries_IgnoresFlag(w) == w.max_retries
max_retries(w) == IF w.retry_enabled THEN w.max_retries ELSE 1

\* the loop of _fetch_from_api from attempt on, the requests ending as outs
\* says: the requests made (each an event named by how it ended) and the
\* sleeps between them, and whether data came back
RECURSIVE Attempt(_, _, _)
Attempt(w, attempt, outs) ==
    IF attempt >= max_retries(w) \/ w.provider \notin Providers
    THEN [events |-> <<>>, data |-> FALSE]
    ELSE LET request == <<[t |-> outs[attempt + 1], v |-> attempt]>>
         IN  IF outs[attempt + 1] = "data" THEN [events |-> request, data |-> TRUE]
             ELSE IF outs[attempt + 1] = "error" THEN [events |-> request, data |-> FALSE]
             ELSE LET wait == IF attempt < max_retries(w) - 1
                              THEN <<[t |-> "sleep", v |-> w.retry_backoff ^ attempt]>>
                              ELSE <<>>
                      rest == Attempt(w, attempt + 1, outs)
                  IN  [events |-> request \o wait \o rest.events, data |-> rest.data]

fetch_from_api(w, outs) ==
    IF ~w.api_key THEN [events |-> <<>>, data |-> FALSE] ELSE Attempt(w, 0, outs)

\* the seconds slept in a sequence of events
RECURSIVE Slept(_)
Slept(events) ==
    IF events = <<>> THEN 0
    ELSE (IF Head(events).t = "sleep" THEN Head(events).v ELSE 0) + Slept(Tail(events))

\* TTLCache.get: the entry, while its TTL has not ended
memory_cache_get(w) == {m \in w.mem : w.now < m.expires}

\* _load_from_file_cache: the file's data, while age < cache_duration
load_from_file_cache(w) == {t \in w.file : w.now - t < CacheDuration}

\* get_weather, the provider requests ending as outs says: memory cache, then
\* file cache (promoted into the memory cache, with a new TTL), then the API
\* (whose data, stamped when its request returns, goes to both caches)
get_weather(w, outs) ==
    LET cached == memory_cache_get(w) # {} \/ load_from_file_cache(w) # {}
        r(level, t, at, evs) ==
            [level |-> level, timestamp |-> t, at |-> at,
             cached |-> cached, events |-> evs]
    IN  IF memory_cache_get(w) # {}
        THEN LET m == CHOOSE m \in memory_cache_get(w) : TRUE
             IN  [w EXCEPT !.ret = r("memory", m.timestamp, w.now, <<>>)]
        ELSE IF load_from_file_cache(w) # {}
        THEN LET t == CHOOSE t \in load_from_file_cache(w) : TRUE
             IN  [w EXCEPT !.mem = {[timestamp |-> t, expires |-> w.now + CacheDuration]},
                           !.ret = r("file", t, w.now, <<>>)]
        ELSE LET f == fetch_from_api(w, outs)
                 end == w.now + Slept(f.events)
             IN  IF f.data
                 THEN [w EXCEPT !.now = end, !.file = {end},
                                !.mem = {[timestamp |-> end, expires |-> end + CacheDuration]},
                                !.ret = r("api", end, end, f.events)]
                 ELSE [w EXCEPT !.now = end, !.ret = r("none", 0, end, f.events)]

\* ------------------------------------------------------- DisplayController
calculate_image_hash(image) == 100 + image

ShouldSkip_Never(force_update, image_hash, stored) == FALSE
ShouldSkip_IgnoreForce(force_update, image_hash, stored) == image_hash = stored
ShouldSkip(force_update, image_hash, stored) ==
    ~force_update /\ image_hash = stored

UsePartial_AtLimit(enabled, count, limit) == enabled /\ count <= limit
UsePartial_Never(enabled, count, limit) == FALSE
UsePartial(enabled, count, limit) == enabled /\ count < limit

\* _init_display_driver: imp = the driver module imports, mi = module_init()'s
\* result, hasPartial = the loaded 2.13" driver has display_Partial, fi = where
\* init stops
init_display_driver(drv, attrs, dtype, imp, mi, hasPartial, fi) ==
    LET mock(how) ==
            [drv |-> "Mock", attrs |-> MockAttrs, run |-> NoRun, how |-> how]
        kind == IF dtype = "waveshare_4in26" THEN "EPD" ELSE "EPD2in13"
        x == Run[kind, "init", 0][fi]
    IN  IF drv # "None"
          THEN [drv |-> drv, attrs |-> attrs, run |-> NoRun, how |-> "kept"]
        ELSE IF dtype \notin {"waveshare_4in26", "waveshare_2in13_v2"}
          THEN mock("nodriver")
        ELSE IF ~imp THEN mock("importerror")
        ELSE IF mi # 0 THEN mock("initfailed")
        ELSE IF x.out = "raised"
          THEN [drv |-> "Mock", attrs |-> MockAttrs, run |-> x, how |-> "initraised"]
        ELSE [drv |-> kind,
              attrs |-> IF kind = "EPD" THEN EPDAttrs ELSE EPD2in13Attrs(hasPartial),
              run |-> x, how |-> "loaded"]

\* what _init_display_driver reads from its environment in a call: only the
\* inputs the call reads vary
InitEnv(drv, dtype) ==
    LET kind == IF dtype = "waveshare_4in26" THEN "EPD" ELSE "EPD2in13"
        env(imp, mi, hasPartial, fi) ==
            [imp |-> imp, mi |-> mi, hasPartial |-> hasPartial, fi |-> fi]
    IN  IF drv # "None" \/ dtype \notin {"waveshare_4in26", "waveshare_2in13_v2"}
          THEN {env(TRUE, 0, FALSE, 0)}
          ELSE {env(FALSE, 0, FALSE, 0), env(TRUE, -1, FALSE, 0)}
               \cup {env(TRUE, 0, FALSE, fi) : fi \in DOMAIN Run[kind, "init", 0]}
               \cup (IF kind = "EPD2in13" THEN {env(TRUE, 0, TRUE, 0)} ELSE {})

\* the driver method _display_full_refresh calls
FullMethod(attrs) == IF "display" \in attrs THEN "display" ELSE "none"

\* the driver method _display_partial_refresh calls
PartialMethod(attrs) ==
    IF "display_Partial" \in attrs THEN "display_Partial"
    ELSE IF "display_partial" \in attrs THEN "display_partial"
    ELSE FullMethod(attrs)

\* the driver method clear_display calls
ClearMethod(attrs) ==
    IF "Clear" \in attrs THEN "Clear"
    ELSE IF "clear" \in attrs THEN "clear"
    ELSE FullMethod(attrs)

\* one call of a driver method; a missing 'display' raises AttributeError
CallMethod(drv, method, image, fd) ==
    IF method = "none" THEN [out |-> "raised", scan |-> NoRun.scan]
    ELSE Run[drv, method, image][fd]

MethodStops(drv, method, image) ==
    IF method = "none" THEN {0} ELSE DOMAIN Run[drv, method, image]

CountAfter_ByTwo(out, use_partial, count) ==
    IF out # "ok" THEN count ELSE IF use_partial THEN count + 2 ELSE 0
CountAfter_Always(out, use_partial, count) == IF use_partial THEN count + 1 ELSE 0
CountAfter(out, use_partial, count) ==
    IF out # "ok" THEN count ELSE IF use_partial THEN count + 1 ELSE 0

HashAfter_Always(out, image_hash, stored) == image_hash
HashAfter_Eager(out, image_hash, stored) ==
    IF out \in {"ok", "raised"} THEN image_hash ELSE stored
HashAfter_Never(out, image_hash, stored) == stored
HashAfter(out, image_hash, stored) ==
    IF out = "ok" THEN image_hash ELSE stored

\* the last call was a clear_display whose Clear (or white frame) went through:
\* the panel is blank
Blanked == last.op = "clear" /\ last.method # "none" /\ last.out = "ok"

\* the call before the last one, in short, when both update the same image, and
\* whether it blanked the panel (history)
NoPrev == [out |-> "none", force |-> FALSE, fresh |-> FALSE, skipped |-> FALSE,
           cleared |-> FALSE]
PrevOf(image) ==
    IF last.op = "update" /\ last.image = image
      THEN [out |-> last.out, force |-> last.force, skipped |-> last.skipped,
            fresh |-> calculate_image_hash(last.image) # last.preHash,
            cleared |-> FALSE]
      ELSE [NoPrev EXCEPT !.cleared = Blanked]

NoCall == [op |-> "none", image |-> 0, force |-> FALSE, skipped |-> FALSE,
           load |-> "kept", fi |-> 0, use_partial |-> FALSE, method |-> "none",
           fd |-> 0, out |-> "none", ret |-> "None",
           preHash |-> NoHash, preCount |-> 0, preStreak |-> 0, preReady |-> FALSE,
           prev |-> NoPrev]

Init ==
    /\ display_type \in {"waveshare_4in26", "waveshare_2in13_v2", "waveshare_2in13"}
    /\ partial_refresh \in BOOLEAN
    /\ partial_refresh_limit \in 0..MaxLimit
    /\ last_image_hash = NoHash
    /\ partial_refresh_count = 0
    /\ display_driver = "None"
    /\ drvAttrs = {}
    /\ ready = FALSE
    /\ unreadyWrites = 0
    /\ hung = FALSE
    /\ asleep = FALSE
    /\ sentAsleep = 0
    /\ streak = 0
    /\ last = NoCall
    /\ io = IOIdle
    /\ epd = EPDNew
    /\ fn = FnNone
    /\ app = AppNew
    /\ weather = WeatherNew

\* successful Partial updates in a row since the count was 0 (history)
StreakAfter(out, method, count, s) ==
    IF out = "ok" /\ method \in {"display_Partial", "display_partial"}
      THEN (IF count = 0 THEN 1 ELSE IF s >= 1 THEN s + 1 ELSE -1)
      ELSE -1

\* what a call that ran the driver leaves behind
Driven(op, image, force_update, ld, fi, use_partial, method, fd, r, ret) ==
    LET s1 == ld.run.scan[ready]
        s2 == r.scan[s1.ready]
        z1 == ld.run.slp[asleep]
        z2 == r.slp[z1.asleep]
    IN  /\ display_driver' = ld.drv
        /\ drvAttrs' = ld.attrs
        /\ ready' = s2.ready
        /\ unreadyWrites' = s1.bad + s2.bad
        /\ hung' = (r.out = "hung")
        /\ asleep' = z2.asleep
        /\ sentAsleep' = z1.sent + z2.sent
        /\ last' = [op |-> op, image |-> image, force |-> force_update,
                    skipped |-> FALSE, load |-> ld.how, fi |-> fi,
                    use_partial |-> use_partial, method |-> method, fd |-> fd,
                    out |-> r.out, ret |-> IF r.out = "hung" THEN "never" ELSE ret,
                    preHash |-> last_image_hash, preCount |-> partial_refresh_count,
                    preStreak |-> streak, preReady |-> ready,
                    prev |-> IF op = "update" THEN PrevOf(image) ELSE NoPrev]

\* update_display(weather_data, force_update), image = the rendered image
UpdateDisplay(image, force_update, imp, mi, hasPartial, fi, fd) ==
    LET image_hash == calculate_image_hash(image)
        skip == ShouldSkip(force_update, image_hash, last_image_hash)
    IN
    /\ ~hung
    /\ IF skip
       THEN /\ UNCHANGED <<last_image_hash, partial_refresh_count, display_driver,
                           drvAttrs, ready, hung, asleep, streak>>
            /\ unreadyWrites' = 0
            /\ sentAsleep' = 0
            /\ last' = [NoCall EXCEPT !.op = "update", !.image = image,
                            !.force = force_update, !.skipped = TRUE, !.ret = "False",
                            !.preHash = last_image_hash,
                            !.preCount = partial_refresh_count,
                            !.preStreak = streak, !.preReady = ready,
                            !.prev = PrevOf(image)]
       ELSE
        LET ld == init_display_driver(display_driver, drvAttrs, display_type,
                                      imp, mi, hasPartial, fi)
            use_partial == UsePartial(partial_refresh, partial_refresh_count,
                                      partial_refresh_limit)
            method == IF ld.run.out = "hung" THEN "none"
                      ELSE IF use_partial THEN PartialMethod(ld.attrs)
                      ELSE FullMethod(ld.attrs)
            r == IF ld.run.out = "hung" THEN [NoRun EXCEPT !.out = "hung"]
                 ELSE CallMethod(ld.drv, method, image, fd)
        IN
        /\ Driven("update", image, force_update, ld, fi, use_partial, method, fd, r,
                  IF r.out = "ok" THEN "True" ELSE "False")
        /\ partial_refresh_count' = CountAfter(r.out, use_partial, partial_refresh_count)
        /\ last_image_hash' = HashAfter(r.out, image_hash, last_image_hash)
        /\ streak' = StreakAfter(r.out, method, partial_refresh_count, streak)
    /\ UNCHANGED <<config, lower>>

\* clear_display()
ClearDisplay(imp, mi, hasPartial, fi, fd) ==
    LET ld == init_display_driver(display_driver, drvAttrs, display_type,
                                  imp, mi, hasPartial, fi)
        method == IF ld.run.out = "hung" THEN "none" ELSE ClearMethod(ld.attrs)
        r == IF ld.run.out = "hung" THEN [NoRun EXCEPT !.out = "hung"]
             ELSE CallMethod(ld.drv, method, 0, fd)
    IN
    /\ ~hung
    /\ Driven("clear", 0, FALSE, ld, fi, FALSE, method, fd, r, "None")
    /\ UNCHANGED <<config, last_image_hash, partial_refresh_count, streak, lower>>

\* sleep_display()
SleepDisplay(fd) ==
    LET calls == display_driver # "None" /\ "sleep" \in drvAttrs
        ld == [drv |-> display_driver, attrs |-> drvAttrs, run |-> NoRun, how |-> "kept"]
        r == IF calls THEN Run[display_driver, "sleep", 0][fd] ELSE NoRun
    IN
    /\ ~hung
    /\ Driven("sleep", 0, FALSE, ld, 0, FALSE, IF calls THEN "sleep" ELSE "none",
              fd, r, "None")
    /\ UNCHANGED <<config, last_image_hash, partial_refresh_count, streak, lower>>

\* where the refresh of an update_display call may stop
UpdateStops(image, e) ==
    LET ld == init_display_driver(display_driver, drvAttrs, display_type,
                                  e.imp, e.mi, e.hasPartial, e.fi)
        use_partial == UsePartial(partial_refresh, partial_refresh_count,
                                  partial_refresh_limit)
    IN  IF ld.run.out = "hung" THEN {0}
        ELSE MethodStops(ld.drv, IF use_partial THEN PartialMethod(ld.attrs)
                                 ELSE FullMethod(ld.attrs), image)

\* where the Clear of a clear_display call may stop
ClearStops(e) ==
    LET ld == init_display_driver(display_driver, drvAttrs, display_type,
                                  e.imp, e.mi, e.hasPartial, e.fi)
    IN  IF ld.run.out = "hung" THEN {0}
        ELSE MethodStops(ld.drv, ClearMethod(ld.attrs), 0)

SleepStops ==
    IF display_driver # "None" /\ "sleep" \in drvAttrs
      THEN DOMAIN Run[display_driver, "sleep", 0] ELSE {0}

Next ==
    \/ \E image \in Images, force_update \in BOOLEAN :
         IF ShouldSkip(force_update, calculate_image_hash(image), last_image_hash)
           THEN UpdateDisplay(image, force_update, TRUE, 0, FALSE, 0, 0)
           ELSE \E e \in InitEnv(display_driver, display_type) :
                  \E fd \in UpdateStops(image, e) :
                    UpdateDisplay(image, force_update, e.imp, e.mi, e.hasPartial, e.fi, fd)
    \/ \E e \in InitEnv(display_driver, display_type) :
         \E fd \in ClearStops(e) :
           ClearDisplay(e.imp, e.mi, e.hasPartial, e.fi, fd)
    \/ \E fd \in SleepStops : SleepDisplay(fd)

Spec == Init /\ [][Next]_vars

\* ----------------------------------------- the bus primitives, line by line
\* one action is one line of send_command, send_data, send_data2 or ReadBusy
\* a DisplayController that is constructed and never called
ControllerNew ==
    /\ display_type = "waveshare_4in26"
    /\ partial_refresh = TRUE
    /\ partial_refresh_limit = 0
    /\ last_image_hash = NoHash
    /\ partial_refresh_count = 0
    /\ display_driver = "None"
    /\ drvAttrs = {}
    /\ ready = FALSE
    /\ unreadyWrites = 0
    /\ hung = FALSE
    /\ asleep = FALSE
    /\ sentAsleep = 0
    /\ streak = 0
    /\ last = NoCall

InitIO ==
    /\ ControllerNew
    /\ \E dc \in {0, 1}, cs \in {0, 1} : io = [IOIdle EXCEPT !.dc = dc, !.cs = cs]
    /\ epd = EPDNew
    /\ fn = FnNone
    /\ app = AppNew
    /\ weather = WeatherNew

IOStep(new) == io' = new /\ UNCHANGED <<controller, epd, fn, app, weather>>

\* a caller enters a primitive; the busy pin will stay busy for n samples
IOCall(call, arg, n) ==
    /\ io.pc \in {"done", "raised"}
    /\ IOStep([io EXCEPT !.call = call, !.arg = arg, !.out = "running",
                         !.pc = IF call = "ReadBusy" THEN "read0" ELSE "dc",
                         !.log = <<>>, !.busyFor = n, !.reads = 0, !.busy = 0])

\* epdconfig.digital_write(self.dc_pin, 0 or 1)
DigitalWriteDC ==
    /\ io.pc = "dc"
    /\ IOStep([io EXCEPT !.dc = DcLevel(io.call), !.pc = "cs0",
                         !.log = Append(@, [pin |-> "dc", v |-> DcLevel(io.call),
                                            cs |-> io.cs])])

\* epdconfig.digital_write(self.cs_pin, 0)
DigitalWriteCSLow ==
    /\ io.pc = "cs0"
    /\ IOStep([io EXCEPT !.cs = 0, !.pc = "spi",
                         !.log = Append(@, [pin |-> "cs", v |-> 0, cs |-> io.cs])])

\* epdconfig.spi_writebyte([..]) / SPI.writebytes2(data), which may raise
SpiWrite(raises) ==
    /\ io.pc = "spi"
    /\ IF raises
         THEN IOStep([io EXCEPT !.pc = "raised", !.out = "raised"])
         ELSE IOStep([io EXCEPT !.pc = "cs1",
                         !.log = Append(@, [pin |-> "spi", v |-> io.arg, cs |-> io.cs])])

\* epdconfig.digital_write(self.cs_pin, 1), and the return
DigitalWriteCSHigh ==
    /\ io.pc = "cs1"
    /\ IOStep([io EXCEPT !.cs = 1, !.pc = "done", !.out = "returned",
                         !.log = Append(@, [pin |-> "cs", v |-> 1, cs |-> io.cs])])

\* busy = epdconfig.digital_read(self.busy_pin), before and inside the loop
ReadBusyRead ==
    /\ io.pc \in {"read0", "read"}
    /\ IOStep([io EXCEPT !.busy = digital_read(io.busyFor, io.reads + 1),
                         !.reads = IF @ < MaxReads THEN @ + 1 ELSE @,
                         !.pc = IF io.pc = "read0" THEN "while" ELSE "delay"])

\* while(busy == 1)
ReadBusyWhile ==
    /\ io.pc = "while"
    /\ IOStep([io EXCEPT !.pc = IF KeepPolling(io.busy) THEN "read" ELSE "delay_end"])

\* epdconfig.delay_ms(20), inside the loop and after it, and the return
ReadBusyDelay ==
    /\ io.pc \in {"delay", "delay_end"}
    /\ IOStep(IF io.pc = "delay" THEN [io EXCEPT !.pc = "while"]
              ELSE [io EXCEPT !.pc = "done", !.out = "returned"])

NextIO ==
    \/ \E call \in SendCalls : \E arg \in IOArgs(call) : IOCall(call, arg, 0)
    \/ \E n \in BusyBehaviours : IOCall("ReadBusy", 0, n)
    \/ DigitalWriteDC
    \/ DigitalWriteCSLow
    \/ \E raises \in BOOLEAN : SpiWrite(raises)
    \/ DigitalWriteCSHigh
    \/ ReadBusyRead
    \/ ReadBusyWhile
    \/ ReadBusyDelay

SpecIO == InitIO /\ [][NextIO]_vars

\* every line that can run does run in the end (the interpreter keeps going)
SpecIOFair == SpecIO /\ WF_vars(NextIO)

\* ------------------------------------- the pure functions, applied once each
\* the argument is drawn at the start; one action applies one function to it
InitFn ==
    /\ ControllerNew
    /\ io = IOIdle
    /\ epd = EPDNew
    /\ app = AppNew
    /\ weather = WeatherNew
    /\ \/ \E image \in TestImages : fn = [FnNone EXCEPT !.kind = "image", !.arg = image]
       \/ \E xs \in XValues, ys \in YValues, xe \in XValues, ye \in YValues :
            fn = [FnNone EXCEPT !.kind = "window", !.arg = <<xs, ys, xe, ye>>]
       \/ \E x \in XValues, y \in YValues :
            fn = [FnNone EXCEPT !.kind = "cursor", !.arg = <<x, y>>]

Apply(op, result) ==
    /\ fn.op = "none"
    /\ fn' = [fn EXCEPT !.op = op, !.out = "returned", !.result = result]
    /\ UNCHANGED <<controller, io, epd, app, weather>>

GetBuffer ==
    /\ fn.kind = "image" /\ fn.arg.mode = "1"
    /\ Apply("getbuffer", getbuffer(fn.arg))

GetBuffer4Gray ==
    /\ fn.kind = "image" /\ fn.arg.mode = "L"
    /\ Apply("getbuffer_4Gray", getbuffer_4Gray(fn.arg))

SetWindowCall ==
    /\ fn.kind = "window"
    /\ Apply("SetWindow", SetWindow(fn.arg[1], fn.arg[2], fn.arg[3], fn.arg[4]))

SetCursorCall ==
    /\ fn.kind = "cursor"
    /\ Apply("SetCursor", SetCursor(fn.arg[1], fn.arg[2]))

NextFn == GetBuffer \/ GetBuffer4Gray \/ SetWindowCall \/ SetCursorCall

SpecFn == InitFn /\ [][NextFn]_vars

\* --------------------------------------------- the EPD object, call by call
\* one action is one call of a public EPD method by a caller that initialises
\* the driver (module_init opens the bus) before it uses it
InitEPD ==
    /\ ControllerNew
    /\ io = IOIdle
    /\ epd = EPDNew
    /\ fn = FnNone
    /\ app = AppNew
    /\ weather = WeatherNew

EPDCall(method, arg, f) ==
    LET e == EPDRun[method][arg][f]
    IN
    /\ epd.out # "hung"
    /\ method \in EPDInits \/ epd.open
    /\ epd' = [method |-> method, arg |-> arg, f |-> f, out |-> e.out,
               open |-> IF method \in EPDInits THEN f # -1
                        ELSE IF e.exit THEN FALSE ELSE epd.open,
               mode |-> IF e.hasReset THEN (IF e.out = "ok" THEN method ELSE "none")
                        ELSE epd.mode,
               lut |-> IF e.hasReset THEN e.lutAfterReset ELSE (epd.lut \/ e.luts > 0),
               lutLoads |-> IF e.exit THEN 0
                            ELSE IF epd.lutLoads + e.luts > 2 THEN 2
                            ELSE epd.lutLoads + e.luts,
               preMode |-> epd.mode, preLut |-> epd.lut]
    /\ UNCHANGED <<controller, io, fn, app, weather>>

NextEPD ==
    \/ \E f \in EPDStops("init", 0) : EPDCall("init", 0, f)
    \/ \E f \in EPDStops("init_Fast", 0) : EPDCall("init_Fast", 0, f)
    \/ \E f \in EPDStops("init_4GRAY", 0) : EPDCall("init_4GRAY", 0, f)
    \/ \E image \in Images : \E f \in EPDStops("display", image) :
          EPDCall("display", image, f)
    \/ \E image \in Images : \E f \in EPDStops("display_Base", image) :
          EPDCall("display_Base", image, f)
    \/ \E image \in Images : \E f \in EPDStops("display_Fast", image) :
          EPDCall("display_Fast", image, f)
    \/ \E image \in Images : \E f \in EPDStops("display_Partial", image) :
          EPDCall("display_Partial", image, f)
    \/ \E image \in GrayImages : \E f \in EPDStops("display_4Gray", image) :
          EPDCall("display_4Gray", image, f)
    \/ \E f \in EPDStops("Clear", 0) : EPDCall("Clear", 0, f)
    \/ \E f \in EPDStops("sleep", 0) : EPDCall("sleep", 0, f)

SpecEPD == InitEPD /\ [][NextEPD]_vars

\* the events the last EPD call put on the bus
DWire == IF epd.method = "none" THEN <<>> ELSE EPDExec(epd.method, epd.arg, epd.f).wire

\* ----------------------------------------- the main loop (WeatherEInkApp.run)
\* The main thread, one step at a time: a signal handler runs between two
\* steps of the main thread, whatever the thread is doing.
InitApp ==
    /\ ControllerNew
    /\ io = IOIdle
    /\ epd = EPDNew
    /\ fn = FnNone
    /\ app \in {AppOf(q) : q \in QuietConfigs}
    /\ weather = WeatherNew

AppStep(new) == app' = new /\ UNCHANGED <<controller, io, epd, fn, weather>>

\* _signal_handler: sets running to False and nothing else
signal_handler_Sleeps(a) == [a EXCEPT !.running = FALSE, !.slept = TRUE]
signal_handler(a) == [a EXCEPT !.running = FALSE]

\* _is_quiet_hours at current_hour
is_quiet_hours(a, current_hour) ==
    IF a.quiet_hours_start < a.quiet_hours_end
    THEN current_hour >= a.quiet_hours_start \/ current_hour < a.quiet_hours_end
    ELSE a.quiet_hours_start <= current_hour /\ current_hour < a.quiet_hours_end

\* backoff = min(self.error_count * 300, 3600)
backoff_Uncapped(error_count) == error_count * 300
backoff(error_count) ==
    IF error_count * 300 < 3600 THEN error_count * 300 ELSE 3600

\* _perform_update returns ok with error_count errors: the initial update's
\* result is dropped, a later one is followed by the backoff sleep when it
\* failed and error_count >= 3
Returned(a, ok, errors, how) ==
    LET backs == ~a.initial /\ ~ok /\ errors >= 3
    IN  [a EXCEPT !.success = ok, !.error_count = errors, !.phase = "none",
                  !.outcome = how, !.initial = FALSE,
                  !.backoff = IF backs THEN backoff(errors) ELSE 0,
                  !.pc = IF backs THEN "backoff" ELSE "loop"]

\* run(): running = True, then the initial _perform_update
RunStart ==
    /\ app.pc = "new"
    /\ AppStep([app EXCEPT !.running = TRUE, !.initial = TRUE, !.pc = "fetch"])

\* get_weather() returns nothing, or it or wait_for_resources raises
FetchFails ==
    /\ app.pc = "fetch"
    /\ app.error_count < MaxErrors
    /\ AppStep(Returned(app, FALSE, app.error_count + 1, app.outcome))

\* get_weather() returns data: update_display is called
FetchData ==
    /\ app.pc = "fetch"
    /\ AppStep([app EXCEPT !.pc = "display", !.phase = "none"])

\* update_display returns False before it sends anything (image unchanged)
DisplaySkipped ==
    /\ app.pc = "display" /\ app.phase = "none"
    /\ AppStep(Returned(app, TRUE, 0, "skipped"))

\* update_display has written the frame to panel RAM
WriteFrame ==
    /\ app.pc = "display" /\ app.phase = "none"
    /\ AppStep([app EXCEPT !.phase = "ram"])

\* update_display has sent the master activation; the busy-wait runs
Activate ==
    /\ app.pc = "display" /\ app.phase = "ram"
    /\ AppStep([app EXCEPT !.phase = "activated"])

\* the busy-wait ends and update_display returns True
RefreshDone ==
    /\ app.pc = "display" /\ app.phase = "activated"
    /\ AppStep(Returned(app, TRUE, 0, "updated"))

\* a transfer raises: update_display catches it and returns False, and
\* _perform_update goes on as after an unchanged image
TransferFails ==
    /\ app.pc = "display" /\ app.phase \in {"none", "ram"}
    /\ AppStep(Returned(app, TRUE, 0, "failed"))

\* time.sleep(backoff) returns
Backoff ==
    /\ app.pc = "backoff"
    /\ AppStep([app EXCEPT !.pc = "loop"])

\* while self.running: the time until the next update, or the loop ends
LoopTest ==
    /\ app.pc = "loop"
    /\ \E t \in 0..MaxTicks :
          AppStep(IF app.running
                  THEN [app EXCEPT !.pc = "wait", !.ticks = t]
                  ELSE [app EXCEPT !.pc = "shutdown"])

\* one time.sleep(sleep_time) of the inner loop
Tick ==
    /\ app.pc = "wait" /\ app.ticks > 0 /\ app.running
    /\ AppStep([app EXCEPT !.ticks = app.ticks - 1])

\* the inner loop ends: break when not running, continue in quiet hours,
\* the next _perform_update otherwise
Wake ==
    /\ app.pc = "wait" /\ (app.ticks = 0 \/ ~app.running)
    /\ \E current_hour \in Hours :
          AppStep(IF ~app.running THEN [app EXCEPT !.pc = "shutdown"]
                  ELSE IF is_quiet_hours(app, current_hour)
                       THEN [app EXCEPT !.pc = "loop", !.current_hour = current_hour]
                       ELSE [app EXCEPT !.pc = "fetch", !.current_hour = current_hour])

\* shutdown(): sleep_display() sends the deep-sleep command and releases the bus
Shutdown ==
    /\ app.pc = "shutdown"
    /\ AppStep([app EXCEPT !.slept = TRUE, !.pc = "done"])

\* SIGINT or SIGTERM is delivered
Signal ==
    /\ app.pc # "done"
    /\ AppStep([signal_handler(app) EXCEPT !.signalledAt = app.phase])

NextApp ==
    \/ RunStart
    \/ FetchFails
    \/ FetchData
    \/ DisplaySkipped
    \/ WriteFrame
    \/ Activate
    \/ RefreshDone
    \/ TransferFails
    \/ Backoff
    \/ LoopTest
    \/ Tick
    \/ Wake
    \/ Shutdown
    \/ Signal

SpecApp == InitApp /\ [][NextApp]_vars

\* the steps of the main thread: every blocking call returns, so the thread
\* takes its next step as long as it has one
MainStep ==
    \/ RunStart \/ FetchFails \/ FetchData \/ DisplaySkipped \/ WriteFrame
    \/ Activate \/ RefreshDone \/ TransferFails \/ Backoff \/ LoopTest
    \/ Tick \/ Wake \/ Shutdown

SpecAppFair == SpecApp /\ WF_vars(MainStep)

\* ------------------------------------ the weather client, call by call
\* a client in any configuration, started with no cache file or with one
\* that an earlier run left behind (its age 0 .. CacheDuration)
InitWeather ==
    /\ ControllerNew
    /\ io = IOIdle
    /\ epd = EPDNew
    /\ fn = FnNone
    /\ app = AppNew
    /\ \E api_key, retry_enabled \in BOOLEAN, provider \in {"openweathermap", "other"},
          retries \in 1..MaxRetries,
          file \in {{}} \cup {{0 - age} : age \in 0..CacheDuration} :
          weather = WeatherOf(api_key, provider, retry_enabled, retries, 2, file)

WeatherStep(new) == weather' = new /\ UNCHANGED <<controller, io, epd, fn, app>>

\* a second passes
TimePasses ==
    /\ weather.now < MaxTime
    /\ WeatherStep([weather EXCEPT !.now = @ + 1])

GetWeather ==
    \E outs \in [1..MaxRetries -> Outcomes] :
        /\ get_weather(weather, outs).now <= MaxTime
        /\ WeatherStep(get_weather(weather, outs))

NextWeather ==
    \/ TimePasses
    \/ GetWeather

SpecWeather == InitWeather /\ [][NextWeather]_vars

\* ------------------------------------------------ the bus, last call (derived)
\* the events the last call put on the bus: those of init, when the call
\* loaded the driver, then those of the method it called
InitWire ==
    IF last.load \in {"loaded", "initraised"}
      THEN Exec(MethodStream(IF display_type = "waveshare_4in26" THEN "EPD" ELSE "EPD2in13",
                             "init", 0), last.fi).wire
      ELSE <<>>

MethodWire ==
    IF last.method = "none" \/ display_driver = "None" THEN <<>>
    ELSE Exec(MethodStream(display_driver, last.method, last.image), last.fd).wire

Wire == InitWire \o MethodWire


\* ---------------------------------------------------------------- claims
Updated == last.op = "update"
PartialMethods == {"display_Partial", "display_partial"}
RefreshMethods == PartialMethods \cup {"display"}
\* the last call reached the driver's refresh method (or is stuck on the way to it)
Attempted == last.method \in RefreshMethods \/ (last.method = "none" /\ last.out = "hung")
Fresh == calculate_image_hash(last.image) # last.preHash
\* the byte sent after the last 0x22 of the last call (0 when there is none)
ActivationByte ==
    LET w == Wire
        at == {i \in 1..Len(w) - 1 : w[i].t = "cmd" /\ w[i].v = 34}
    IN  IF at = {} THEN 0
        ELSE LET i == CHOOSE j \in at : \A k \in at : k <= j
             IN IF w[i + 1].t = "data" THEN w[i + 1].v ELSE 0

\* C1: starting from partial_refresh_count = 0 with partial refresh enabled and
\* limit L >= 1, after exactly L successful Partial updates in a row (each adds
\* one to the counter), the next update that is not skipped calls the driver's
\* full refresh (display), and when that refresh is performed the counter is 0.
C1_PartialBound ==
    /\ streak >= 1 => partial_refresh_count = streak
    /\ (Updated /\ ~last.skipped /\ partial_refresh /\ partial_refresh_limit >= 1
            /\ last.preStreak = partial_refresh_limit)
       => /\ last.method = "display"
          /\ last.out = "ok" => partial_refresh_count = 0

C1_Witness ==
    /\ Updated /\ partial_refresh /\ partial_refresh_limit >= 2
    /\ last.preStreak = partial_refresh_limit
    /\ last.method = "display" /\ last.out = "ok" /\ partial_refresh_count = 0

\* C2 as stated: an update that is not skipped refreshes with the Partial method
\* iff partial refresh is enabled and the count is below the limit, else with display.
C2_Original ==
    (Updated /\ last.method # "none")
    => IF partial_refresh /\ last.preCount < partial_refresh_limit
         THEN last.method \in PartialMethods
         ELSE last.method = "display"

\* C2 amended: the refresh is Partial (display_Partial / display_partial, activation
\* byte 0xFF on the 4.26" panel) iff partial refresh is enabled, the count is below
\* the limit and the driver offers a partial method; otherwise it is Full (display,
\* activation byte 0xF7).
C2_PartialIffOffered ==
    (Updated /\ last.method # "none")
    => /\ IF partial_refresh /\ last.preCount < partial_refresh_limit
             /\ drvAttrs \cap PartialMethods # {}
            THEN last.method \in PartialMethods
            ELSE last.method = "display"
       /\ (display_driver = "EPD" /\ last.out = "ok")
          => ActivationByte = (IF last.method = "display_Partial" THEN 255 ELSE 247)

C2_Witness ==
    /\ Updated /\ last.out = "ok" /\ display_driver = "EPD2in13"
    /\ partial_refresh /\ last.preCount < partial_refresh_limit
    /\ "display_Partial" \notin drvAttrs /\ last.method = "display"

\* C3: after any call that completes a Full refresh (update_display through
\* display, also as the fallback of _display_partial_refresh, or clear_display),
\* partial_refresh_count is 0.
C3_FullRefreshResetsCount ==
    (last.out = "ok" /\ last.method \in {"display", "Clear", "clear"})
    => partial_refresh_count = 0

\* C4: update_display attempts a transmission iff force_update is set or the
\* image's fingerprint differs from last_image_hash; a forced call in which no
\* driver call fails returns True whatever the stored fingerprint is.
C4_AttemptIffForcedOrChanged ==
    Updated
    => /\ Attempted <=> (last.force \/ Fresh)
       /\ (last.force /\ last.out \in {"ok", "none"}) => last.ret = "True"

C4_Witness ==
    /\ Updated /\ last.force /\ ~Fresh /\ last.preHash # NoHash
    /\ last.method \in RefreshMethods /\ last.ret = "True"

\* C5: last_image_hash changes only in an update_display call whose driver
\* refresh returned, and is then the fingerprint of the image transmitted;
\* after a call whose refresh raised it has the value it had before the call.
C5_HashOnlyOnSuccess ==
    /\ last_image_hash # last.preHash
       => Updated /\ last.out = "ok" /\ last.method \in RefreshMethods
    /\ (Updated /\ last.out = "ok")
       => last_image_hash = calculate_image_hash(last.image)
    /\ last.out = "raised" => last_image_hash = last.preHash

C5_Witness ==
    /\ Updated /\ last.out = "raised" /\ Fresh /\ last.preHash # NoHash
    /\ last_image_hash = last.preHash

\* C6 as stated: when an update_display for image A fails during transmission,
\* the next update_display with A and force_update=False is not skipped.
C6_Original ==
    (Updated /\ ~last.force /\ last.prev.out = "raised") => ~last.skipped

\* C6 amended: when an update_display for image A, whose fingerprint differed
\* from last_image_hash, fails during transmission, the next update_display with
\* A and force_update=False is not skipped: it calls the driver's refresh again.
C6_RetryAfterFailure ==
    (Updated /\ ~last.force /\ last.prev.out = "raised" /\ last.prev.fresh)
    => ~last.skipped /\ last.method \in RefreshMethods

C6_Witness ==
    /\ Updated /\ ~last.force /\ last.prev.out = "raised" /\ last.prev.fresh
    /\ last.preHash # NoHash /\ last.method \in RefreshMethods /\ last.out = "ok"

\* C7: of two update_display calls in a row with the same image and
\* force_update=False, made with a driver that succeeds and a stored fingerprint
\* that differs from the image's, the first transmits and returns True and the
\* second transmits nothing and returns False.
C7_OneTransmission ==
    /\ (Updated /\ ~last.force /\ Fresh /\ last.out \in {"ok", "none"})
       => last.method \in RefreshMethods /\ last.ret = "True"
    /\ (Updated /\ ~last.force /\ last.prev.out = "ok" /\ ~last.prev.force
            /\ last.prev.fresh)
       => last.skipped /\ last.method = "none" /\ last.ret = "False" /\ Wire = <<>>

C7_Witness ==
    /\ Updated /\ ~last.force /\ last.prev.out = "ok" /\ ~last.prev.force
    /\ last.prev.fresh /\ last.skipped /\ last.ret = "False"
    /\ display_driver = "EPD"

\* C8: any failure during a refresh attempt, also a failure to import or
\* initialise the hardware driver, makes update_display return False and leaves
\* last_image_hash unchanged.
C8_FailureIsReported ==
    (Updated /\ (last.out = "raised"
                   \/ last.load \in {"importerror", "initfailed", "initraised"}))
    => last.ret = "False" /\ last_image_hash = last.preHash

\* C9: when the driver raises during _display_partial_refresh or
\* _display_full_refresh, partial_refresh_count is what it was before the call.
C9_CountKeptOnFailure ==
    (Updated /\ last.out = "raised") => partial_refresh_count = last.preCount

C9_Witness ==
    /\ Updated /\ last.out = "raised" /\ last.method = "display"
    /\ last.preCount >= 1 /\ partial_refresh_count = last.preCount

\* C10: every write of a frame buffer to panel RAM (0x24 or 0x26) happens while
\* the driver is Ready: a ReadBusy has returned since the last hardware reset or
\* master activation.
C10_RamWriteOnlyWhenReady == unreadyWrites = 0

\* C11: once the driver's sleep() has run (sleep_display, also from shutdown and
\* __del__), no command or data byte goes to the panel before a hardware reset:
\* a later Full-refresh update_display, a clear_display or a second
\* sleep_display sends nothing to the sleeping panel.
C11_SilentWhileAsleep == sentAsleep = 0

\* the position in the last call's events of its first frame transfer (0: none)
FrameAt ==
    LET w == Wire
        at == {i \in 1..Len(w) : w[i].t = "data2"}
    IN  IF at = {} THEN 0 ELSE CHOOSE i \in at : \A k \in at : i <= k

\* C12: every update_display call that is not skipped runs, before it transmits
\* the frame, the driver's initialisation sequence for the mode it selected: a
\* Full refresh (also one that follows a Partial refresh) is preceded by init,
\* a Partial refresh by the reset that opens the Partial sequence.
C12_InitBeforeFrame ==
    (Updated /\ display_driver = "EPD" /\ FrameAt > 0)
    => IF last.method = "display"
         THEN FrameAt > Len(init) /\ SubSeq(Wire, 1, Len(init)) = init
         ELSE Wire[1].t = "rst"

\* C13: for every N >= 0, when the busy pin reads busy for its first N samples
\* and idle from then on, ReadBusy reads the pin exactly N + 1 times and returns.
C13_ReadsUntilIdle ==
    /\ (io.call = "ReadBusy" /\ io.busyFor # Forever /\ io.out = "returned")
       => io.reads = io.busyFor + 1
    /\ (io.call = "ReadBusy" /\ io.busyFor # Forever) => io.reads <= io.busyFor + 1

C13_Witness ==
    io.call = "ReadBusy" /\ io.busyFor = 2 /\ io.out = "returned" /\ io.reads = 3

\* C14: ReadBusy terminates whatever the busy pin does: a ReadBusy that was
\* entered returns or raises in the end (after a configured bound, with
\* DeviceNotRespondingError, when the pin never goes idle).
C14_ReadBusyEnds ==
    (io.call = "ReadBusy" /\ io.out = "running") ~> (io.out \in {"returned", "raised"})

\* C18: in every send_command, send_data and send_data2 call that completes
\* normally, the DC line is set (0 for a command, 1 for data) before chip-select
\* is driven low, the SPI write happens while chip-select is low, and
\* chip-select is high again when the call returns: the call drives chip-select
\* low just before its transfer and high just after it, and at no other time.
C18_ChipSelectFramesTransfer ==
    /\ \A i \in 1..Len(io.log) : io.log[i].pin = "spi" => io.log[i].cs = 0
    /\ (io.call \in SendCalls /\ io.out = "returned")
       => /\ io.cs = 1
          /\ io.dc = (IF io.call = "send_command" THEN 0 ELSE 1)
          /\ Len(io.log) = 4
          /\ io.log[1].pin = "dc" /\ io.log[1].v = io.dc
          /\ io.log[2].pin = "cs" /\ io.log[2].v = 0
          /\ io.log[3].pin = "spi" /\ io.log[3].v = io.arg
          /\ io.log[4].pin = "cs" /\ io.log[4].v = 1 /\ io.log[4].cs = 0

C18_Witness ==
    /\ io.call = "send_command" /\ io.out = "returned" /\ io.arg = 36
    /\ io.cs = 1 /\ io.dc = 0 /\ Len(io.log) = 4

\* the refresh trigger a method ends with, and the positions of its 0x22
TriggerOf(method) ==
    CASE method \in {"display", "display_Base", "Clear"} -> "TurnOnDisplay"
      [] method = "display_Fast" -> "TurnOnDisplay_Fast"
      [] method = "display_Partial" -> "TurnOnDisplay_Part"
      [] method = "display_4Gray" -> "TurnOnDisplay_4GRAY"
      [] OTHER -> "none"

TriggerAt == {i \in 1..Len(DWire) : DWire[i] = [t |-> "cmd", v |-> 34]}

\* C15: each refresh trigger (TurnOnDisplay, _Fast, _Part, _4GRAY) sends, in
\* this order and with nothing in between, command 0x22, one data byte (Full
\* 0xF7, Fast 0xC7, Partial 0xFF, Gray 0xC7), command 0x20, and then waits in
\* ReadBusy; it returns only after the busy wait has returned, and nothing
\* follows it in the call.
C15_TriggerSequence ==
    TriggerOf(epd.method) # "none"
    => LET w == DWire
           byte == CASE TriggerOf(epd.method) = "TurnOnDisplay" -> 247
                     [] TriggerOf(epd.method) = "TurnOnDisplay_Fast" -> 199
                     [] TriggerOf(epd.method) = "TurnOnDisplay_Part" -> 255
                     [] TriggerOf(epd.method) = "TurnOnDisplay_4GRAY" -> 199
       IN  /\ \A i \in TriggerAt :
                /\ i + 1 <= Len(w) => w[i + 1] = [t |-> "data", v |-> byte]
                /\ i + 2 <= Len(w) => w[i + 2] = [t |-> "cmd", v |-> 32]
                /\ i + 3 <= Len(w) => w[i + 3].t = "busy"
                /\ Len(w) <= i + 3
           /\ epd.out = "ok"
              => /\ Cardinality(TriggerAt) = 1
                 /\ w[Len(w)].t = "busy"
                 /\ Len(w) - 3 \in TriggerAt

C15_Witness ==
    /\ epd.method = "display_Fast" /\ epd.out = "ok"
    /\ SubSeq(DWire, Len(DWire) - 3, Len(DWire)) = TurnOnDisplay_Fast

\* the booster soft-start block
Booster ==
    send_command(12) \o send_data(174) \o send_data(199) \o send_data(195)
    \o send_data(192) \o send_data(128)

\* the events of the last EPD call before its first frame transfer
BeforeFrame ==
    LET w == DWire
        at == {i \in 1..Len(w) : w[i].t = "data2"}
    IN  IF at = {} THEN w
        ELSE SubSeq(w, 1, (CHOOSE i \in at : \A k \in at : i <= k) - 1)

\* C16: each of the four mode sequences (init, init_Fast, init_4GRAY and the
\* Partial sequence inside display_Partial) performs a hardware reset, then a
\* busy-wait, and sends command 0x0C with the five bytes 0xAE, 0xC7, 0xC3,
\* 0xC0, 0x80, all before any frame data.
C16_ResetWaitBooster ==
    (epd.method \in EPDInits \cup {"display_Partial"} /\ epd.out = "ok")
    => LET w == BeforeFrame
       IN  /\ Len(w) >= 2 /\ w[1].t = "rst" /\ w[2].t = "busy"
           /\ \E i \in 3..Len(w) - Len(Booster) + 1 :
                 SubSeq(w, i, i + Len(Booster) - 1) = Booster

\* the data bytes that follow the opcode at position i before the next opcode
DataAfter(w, i) ==
    LET later == {j \in i + 1..Len(w) : w[j].t = "cmd"}
        next == IF later = {} THEN Len(w) + 1
                ELSE CHOOSE j \in later : \A k \in later : j <= k
    IN  [n \in 1..Cardinality({j \in i + 1..next - 1 : w[j].t \in {"data", "data2"}}) |->
            w[CHOOSE j \in i + 1..next - 1 :
                /\ w[j].t \in {"data", "data2"}
                /\ Cardinality({k \in i + 1..j : w[k].t \in {"data", "data2"}}) = n].v]

\* C17: in every command stream the driver emits, each opcode is followed by
\* exactly as many data bytes as the wire-protocol table gives before the next
\* opcode: 0x01 by three (height-1 low, height-1 high, 0x02), 0x44 and 0x45 by
\* four, 0x4E and 0x4F by two, 0x0C by five, 0x32 by 105, 0x03 by one, 0x04 by
\* three, 0x2C by one, 0x10 by one, 0x12 and 0x20 by none.
C17_DataBytesPerOpcode ==
    epd.out = "ok"
    => LET w == DWire
           count(v) == CASE v = 1 -> 3
                         [] v \in {68, 69} -> 4
                         [] v \in {78, 79} -> 2
                         [] v = 12 -> 5
                         [] v = 50 -> 105
                         [] v = 3 -> 1
                         [] v = 4 -> 3
                         [] v = 44 -> 1
                         [] v = 16 -> 1
                         [] v \in {18, 32} -> 0
       IN  \A i \in 1..Len(w) :
             (w[i].t = "cmd" /\ w[i].v \in {1, 68, 69, 78, 79, 12, 50, 3, 4, 44, 16, 18, 32})
             => /\ Len(DataAfter(w, i)) = count(w[i].v)
                /\ w[i].v = 1
                   => DataAfter(w, i) = <<(EPD_HEIGHT - 1) % 256, (EPD_HEIGHT - 1) \div 256, 2>>

C20_PlanesThenActivation ==
    epd.method = "display_4Gray"
    => LET w == DWire
           isData(a, b) == \A j \in a..b : w[j].t = "data"
       IN  /\ epd.out = "ok"
              => /\ Len(w) = 2 * PlaneLen + 6
                 /\ w[1] = [t |-> "cmd", v |-> 36]
                 /\ isData(2, PlaneLen + 1)
                 /\ w[PlaneLen + 2] = [t |-> "cmd", v |-> 38]
                 /\ isData(PlaneLen + 3, 2 * PlaneLen + 2)
                 /\ SubSeq(w, 2 * PlaneLen + 3, 2 * PlaneLen + 5)
                      = <<[t |-> "cmd", v |-> 34], [t |-> "data", v |-> 199],
                          [t |-> "cmd", v |-> 32]>>
           /\ \A i \in 1..Len(w) :
                 (w[i].t = "cmd" /\ w[i].v \in {34, 32}) => i > 2 * PlaneLen + 2

C20_Witness ==
    /\ epd.method = "display_4Gray" /\ epd.out = "ok" /\ epd.arg[1] = 27
    /\ DWire[2 * PlaneLen + 3] = [t |-> "cmd", v |-> 34]

\* display_4Gray: the byte sent as output byte i (from 0) of a plane, bit k of
\* a byte, and the 2-bit sample (0x00, 0x40, 0x80 or 0xC0) that is n-th (from 0)
\* in the pair of source bytes 2i, 2i+1, most significant pair first
PlaneOutAt(plane, i) == (plane - 1) * (PlaneLen + 1) + 2 + i
PlaneOut(plane, i) == DWire[PlaneOutAt(plane, i)].v
BitOf(v, k) == (v \div (2 ^ k)) % 2
SampleOf(image, i, n) == 64 * ((image[2 * i + (n \div 4) + 1] \div (4 ^ (3 - (n % 4)))) % 4)
\* the last EPD call was display_4Gray and sent output byte i of the plane
Sent4Gray(plane, i) ==
    /\ epd.method = "display_4Gray"
    /\ PlaneOutAt(plane, i) <= Len(DWire)

\* C21 as stated: for every sample s in {0x00, 0x40, 0x80, 0xC0}, the bit
\* display_4Gray emits for s in the first plane (0x24) is 0 if s = 0xC0 and 1
\* otherwise.
C21_Original ==
    \A i \in 0..PlaneLen - 1, n \in 0..7 :
        Sent4Gray(1, i)
        => BitOf(PlaneOut(1, i), 7 - n)
             = (IF SampleOf(epd.arg, i, n) = 192 THEN 0 ELSE 1)

\* C21 amended: the bit display_4Gray emits for a sample s in the first plane
\* (0x24) is 0 if s is 0xC0 or 0x40 and 1 if s is 0x00 or 0x80.
C21_FirstPlaneBit ==
    \A i \in 0..PlaneLen - 1, n \in 0..7 :
        Sent4Gray(1, i)
        => BitOf(PlaneOut(1, i), 7 - n)
             = (IF SampleOf(epd.arg, i, n) \in {192, 64} THEN 0 ELSE 1)

C21_Witness ==
    /\ Sent4Gray(1, 0) /\ epd.out = "ok"
    /\ SampleOf(epd.arg, 0, 1) = 64 /\ BitOf(PlaneOut(1, 0), 6) = 0
    /\ SampleOf(epd.arg, 0, 2) = 128 /\ BitOf(PlaneOut(1, 0), 5) = 1

\* C22: for every sample s in {0x00, 0x40, 0x80, 0xC0}, the bit display_4Gray
\* emits for s in the second plane (0x26) is 0 if s is 0xC0 or 0x80 and 1
\* otherwise.
C22_SecondPlaneBit ==
    \A i \in 0..PlaneLen - 1, n \in 0..7 :
        Sent4Gray(2, i)
        => BitOf(PlaneOut(2, i), 7 - n)
             = (IF SampleOf(epd.arg, i, n) \in {192, 128} THEN 0 ELSE 1)

C22_Witness ==
    /\ Sent4Gray(2, 0) /\ epd.out = "ok"
    /\ SampleOf(epd.arg, 0, 1) = 64 /\ BitOf(PlaneOut(2, 0), 6) = 1
    /\ SampleOf(epd.arg, 0, 2) = 128 /\ BitOf(PlaneOut(2, 0), 5) = 0

\* C23 as stated: each output byte of a bitplane is built from the four 2-bit
\* samples of one source byte, most significant pair first, one output bit per
\* sample, entering the output byte from its most significant bit downward.
C23_Original ==
    \A plane \in {1, 2}, i \in 0..PlaneLen - 1, q \in 0..3 :
        Sent4Gray(plane, i)
        => BitOf(PlaneOut(plane, i), 7 - q)
             = PlaneBit(plane, (epd.arg[i + 1] \div (4 ^ (3 - q))) % 4)

\* C23 amended: each output byte i of a bitplane is built from the eight 2-bit
\* samples of the two source bytes 2i and 2i+1, each byte taken from its most
\* significant pair downward, one output bit per sample; the bits enter the
\* output byte high-to-low in processing order, so the first sample of byte 2i
\* gives bit 7 and the last sample of byte 2i+1 gives bit 0, and the result is
\* an 8-bit value: no plane bit is lost or shifted out.
C23_EightSamplesPerByte ==
    \A plane \in {1, 2}, i \in 0..PlaneLen - 1 :
        Sent4Gray(plane, i)
        => /\ PlaneOut(plane, i) \in 0..255
           /\ DWire[PlaneOutAt(plane, i)].t = "data"
           /\ \A n \in 0..7 :
                BitOf(PlaneOut(plane, i), 7 - n)
                  = PlaneBit(plane, SampleOf(epd.arg, i, n) \div 64)

C23_Witness ==
    /\ Sent4Gray(2, PlaneLen - 1) /\ epd.out = "ok"
    /\ epd.arg[1] = 228 /\ epd.arg[2] = 0
    /\ PlaneOut(1, 0) = 5 * 16 + 15 /\ PlaneOut(2, 0) = 3 * 16 + 15

\* the last function applied was getbuffer / getbuffer_4Gray to an image of the
\* panel's size, or of its transpose
Encoded(op, sz) == fn.op = op /\ fn.arg.size = sz
Uniform(image, v) == image.base = v /\ image.val = v

\* C24: getbuffer on a panel-sized (width x height) image returns exactly
\* (width/8) x height bytes in which bit (7 - x mod 8) of byte (x + y*width) div 8
\* is 0 iff pixel (x, y) is black; an all-white image gives every byte 0xFF and
\* an all-black image every byte 0x00.
C24_MonochromeBits ==
    Encoded("getbuffer", <<width, height>>)
    => /\ DOMAIN fn.result = 0..(width \div 8) * height - 1
       /\ \A x \in 0..width - 1, y \in 0..height - 1 :
            BitOf(fn.result[(x + y * width) \div 8], 7 - (x % 8)) = 0
              <=> Px(fn.arg, x, y) = 0
       /\ Uniform(fn.arg, 255) => \A b \in DOMAIN fn.result : fn.result[b] = 255
       /\ Uniform(fn.arg, 0) => \A b \in DOMAIN fn.result : fn.result[b] = 0

C24_Witness ==
    /\ Encoded("getbuffer", <<width, height>>)
    /\ fn.arg.base = 255 /\ fn.arg.val = 0 /\ fn.arg.at = <<1, 1>>
    /\ fn.result[width \div 8] = 191

\* the panel-sized image a transposed image becomes when it is rotated by
\* 90 degrees: pixel (x, y) goes to (y, height - 1 - x)
Rotated(image) ==
    [image EXCEPT !.size = <<width, height>>,
                  !.at = <<image.at[2], height - 1 - image.at[1]>>]

\* C25: for every transposed (height x width) image, the output of getbuffer is
\* byte for byte the output of getbuffer at identity orientation for the
\* panel-sized image obtained by rotating it with newX = y, newY = height-1-x.
C25_OrientationEquivalence ==
    Encoded("getbuffer", <<height, width>>)
    => fn.result = getbuffer(Rotated(fn.arg))

C25_Witness ==
    /\ Encoded("getbuffer", <<height, width>>)
    /\ fn.arg.base = 255 /\ fn.arg.val = 0 /\ fn.arg.at = <<0, 1>>
    /\ fn.result[(width \div 8) * (height - 1)] = 191

\* C26: getbuffer_4Gray returns (width/4) x height bytes, each packing four
\* consecutive source pixels after the bucket remap, pixel 0 in bits 7-6 down
\* to pixel 3 in bits 1-0: a uniform run of four pixels of luminance 0xFF,
\* 0xC0, 0x80, 0x00 gives the byte 0xFF, 0xAA, 0x55, 0x00, in the identity and
\* in the transposed orientation.
C26_GrayPacking ==
    (fn.op = "getbuffer_4Gray" /\ fn.arg.size \in {<<width, height>>, <<height, width>>})
    => LET image == IF fn.arg.size = <<width, height>> THEN fn.arg ELSE Rotated(fn.arg)
           code(v) == CASE v = 255 -> 3 [] v = 192 -> 2 [] v = 128 -> 1 [] v = 0 -> 0
                        [] OTHER -> v \div 64
       IN  /\ DOMAIN fn.result = 0..(width \div 4) * height - 1
           /\ \A b \in DOMAIN fn.result :
                LET y == (4 * b) \div width
                    x == (4 * b) % width
                IN  /\ \A k \in 0..3 :
                         (fn.result[b] \div (4 ^ (3 - k))) % 4 = code(Px(image, x + k, y))
                    /\ \A v \in {255, 192, 128, 0} :
                         (\A k \in 0..3 : Px(image, x + k, y) = v)
                         => fn.result[b] = (CASE v = 255 -> 255 [] v = 192 -> 170
                                              [] v = 128 -> 85 [] v = 0 -> 0)

C26_Witness ==
    /\ fn.op = "getbuffer_4Gray" /\ fn.arg.size = <<height, width>>
    /\ fn.arg.base = 192 /\ fn.arg.val = 128 /\ fn.arg.at = <<0, 0>>
    /\ fn.result[1] = 170 /\ fn.result[(width \div 4) * (height - 1)] = 106

\* C27: getbuffer and getbuffer_4Gray reject an image whose size is neither
\* (width, height) nor (height, width) with an error: no buffer is returned for
\* it (and nothing is transmitted for that update).
C27_WrongSizeRejected ==
    (fn.op \in {"getbuffer", "getbuffer_4Gray"}
        /\ fn.arg.size \notin {<<width, height>>, <<height, width>>})
    => fn.out = "raised"

\* C28: SetWindow and SetCursor send each X value as the two bytes (x mod 256,
\* (x div 256) mod 4) and each Y value as (y mod 256, (y div 256) mod 256),
\* start before end and the X register (0x44 / 0x4E) before the Y register
\* (0x45 / 0x4F); for 0 <= x < 1024 and 0 <= y < 65536 the value is
\* low + 256 * high of the bytes sent.
C28_WindowBytes ==
    LET w == fn.result
        cmd(i, v) == w[i] = [t |-> "cmd", v |-> v]
        \* the value at argument k is sent as the data bytes at i, i + 1
        sent(k, i, limit) ==
            /\ w[i].t = "data" /\ w[i + 1].t = "data"
            /\ w[i].v = fn.arg[k] % 256
            /\ w[i + 1].v = (fn.arg[k] \div 256) % limit
            /\ w[i].v \in 0..255 /\ w[i + 1].v \in 0..limit - 1
            /\ fn.arg[k] = w[i].v + 256 * w[i + 1].v
    IN  /\ fn.op = "SetWindow"
           => /\ Len(w) = 10
              /\ cmd(1, 68) /\ sent(1, 2, 4) /\ sent(3, 4, 4)
              /\ cmd(6, 69) /\ sent(2, 7, 256) /\ sent(4, 9, 256)
        /\ fn.op = "SetCursor"
           => /\ Len(w) = 6
              /\ cmd(1, 78) /\ sent(1, 2, 4)
              /\ cmd(4, 79) /\ sent(2, 5, 256)

C28_Witness ==
    /\ fn.op = "SetWindow" /\ fn.arg = <<0, 479, 799, 0>>
    /\ fn.result[4].v = 31 /\ fn.result[5].v = 3
    /\ fn.result[7].v = 223 /\ fn.result[8].v = 1

\* the events of a stream that write frame RAM: the commands 0x24 and 0x26 and
\* the data that follow them up to the next command
RamWrites(s) ==
    {j \in 1..Len(s) :
        \/ s[j].t = "cmd" /\ s[j].v \in {36, 38}
        \/ /\ s[j].t \in {"data", "data2"}
           /\ \E c \in 1..j - 1 :
                 /\ s[c].t = "cmd" /\ s[c].v \in {36, 38}
                 /\ \A k \in c + 1..j : s[k].t \in {"data", "data2"}}

\* C29: in a refresh attempt (display, display_Base, display_Fast,
\* display_Partial, display_4Gray) the master activation (0x20) is sent only
\* after every frame-RAM write of the attempt has been sent, and an attempt in
\* which a command or data transfer fails sends no activation at all.
C29_AllOrNothing ==
    epd.method \in EPDDisplays \cup {"display_4Gray"}
    => LET w == DWire
           whole == EPDStream(epd.method, epd.arg)
           activations == {i \in 1..Len(w) : w[i] = [t |-> "cmd", v |-> 32]}
       IN  /\ RamWrites(whole) # {}
           /\ \A i \in activations : \A j \in RamWrites(whole) : j < i
           /\ epd.out = "raised" => activations = {}
           /\ epd.out = "ok" => Cardinality(activations) = 1

C29_Witness ==
    /\ epd.method = "display_Partial" /\ epd.out = "raised"
    /\ DWire # <<>> /\ DWire[Len(DWire)] = [t |-> "data", v |-> 255]
    /\ \E j \in 1..Len(DWire) : DWire[j].t = "data2"

\* C30: a shutdown signal that arrives while a refresh is in flight does not
\* interrupt it: the signal changes nothing but running, and the deep-sleep
\* command and the bus release are issued only once update_display has returned,
\* never between a frame-RAM write and the end of the busy-wait after its
\* activation.
C30_ShutdownBetweenRefreshes ==
    /\ app.slept => app.pc = "done" /\ app.phase = "none" /\ ~app.running
    /\ app.phase \in {"ram", "activated"} => app.pc = "display" /\ ~app.slept
    /\ app.signalledAt \in {"ram", "activated"} /\ app.slept
       => app.outcome \in {"updated", "failed"}

C30_Witness ==
    app.slept /\ app.signalledAt = "activated" /\ app.outcome = "updated"

\* the hours of the window from S up to but excluding E, past midnight when S > E
InWindow(S, E, h) == IF S <= E THEN S <= h /\ h < E ELSE h >= S \/ h < E

\* C31: _is_quiet_hours is true exactly for the hours of the window from
\* quiet_hours_start up to but excluding quiet_hours_end, wrapping past midnight
\* when start > end, and the main loop starts no update cycle at an hour of
\* that window.
C31_QuietWindow ==
    LET S == app.quiet_hours_start
        E == app.quiet_hours_end
    IN  /\ app.current_hour \in Hours
           => (is_quiet_hours(app, app.current_hour) <=> InWindow(S, E, app.current_hour))
        /\ app.pc = "fetch" /\ ~app.initial => ~InWindow(S, E, app.current_hour)

\* C32: an update cycle whose display update failed, because a transfer raised
\* inside update_display, makes _perform_update return False with error_count
\* incremented: it is never counted as a success and never leaves error_count
\* at 0. (A cycle that ends at FetchFails keeps the outcome of an earlier call,
\* and it too returns False with error_count >= 1.)
C32_FailedDisplayCounted ==
    app.outcome = "failed" /\ app.pc \in {"loop", "backoff"}
    => ~app.success /\ app.error_count >= 1

\* C33: once SIGINT or SIGTERM has been delivered, at any time after the
\* handlers are installed (before run() starts included), the application
\* eventually leaves the main loop and shutdown() puts the display to sleep,
\* as long as every blocking call returns.
C33_SignalLeadsToShutdown == (app.signalledAt # "never") ~> app.slept

\* C34: when the SPI write of send_command, send_data or send_data2 raises, the
\* call ends with the error, the byte is not on the bus, and chip-select is
\* high (deasserted), as it was before the call.
C34_FailedWriteReleasesChipSelect ==
    (io.call \in SendCalls /\ io.out = "raised")
    => /\ io.pc = "raised"
       /\ \A i \in 1..Len(io.log) : io.log[i].pin # "spi"
       /\ io.cs = 1

\* C35: the main loop sleeps a backoff after a cycle exactly when that cycle
\* failed with error_count >= 3; the backoff is min(error_count * 300, 3600)
\* seconds, so at least 900 and never more than 3600, and a cycle in which
\* _perform_update succeeds leaves error_count at 0.
C35_BackoffAfterThreeFailures ==
    LET n == app.error_count
    IN  /\ app.pc = "backoff" => app.backoff > 0
        /\ app.backoff > 0
           => /\ ~app.success /\ n >= 3
              /\ app.backoff \in {n * 300, 3600}
              /\ app.backoff <= n * 300 /\ app.backoff <= 3600
              /\ app.backoff >= 900
        /\ (app.pc = "loop" /\ ~app.success /\ n >= 3) => app.backoff > 0
        /\ app.success => n = 0

C35_Witness ==
    app.pc = "backoff" /\ app.error_count = 13 /\ app.backoff = 3600

\* the provider requests among the events of the last _fetch_from_api
Requests == {i \in 1..Len(weather.ret.events) : weather.ret.events[i].t \in Outcomes}

\* C36: _fetch_from_api makes at most max_retries provider requests, at most
\* one (and exactly one, once it gets as far as the provider) when
\* retry_enabled is false; it stops at the first request that returns data;
\* between two consecutive attempts it sleeps backoff ^ attempt seconds, and it
\* does not sleep after the last attempt; without an API key it makes no
\* request.
C36_BoundedRetries ==
    LET w == weather
        e == w.ret.events
        limit == IF w.retry_enabled THEN w.max_retries ELSE 1
    IN  /\ Cardinality(Requests) <= limit
        /\ ~w.api_key => e = <<>>
        /\ (~w.retry_enabled /\ e # <<>>) => Len(e) = 1 /\ Requests = {1}
        /\ \A i \in Requests :
              /\ e[i].v = Cardinality({j \in Requests : j < i})
              /\ e[i].t = "data" => i = Len(e) /\ w.ret.level = "api"
              /\ i < Len(e)
                 => /\ e[i].t = "retry"
                    /\ e[i + 1] = [t |-> "sleep", v |-> w.retry_backoff ^ e[i].v]
        /\ \A i \in 1..Len(e) :
              e[i].t = "sleep" => i > 1 /\ i < Len(e) /\ i - 1 \in Requests /\ i + 1 \in Requests
        /\ w.ret.level = "api" => e # <<>> /\ e[Len(e)].t = "data"

C36_Witness ==
    /\ weather.retry_enabled /\ weather.max_retries = 3
    /\ weather.ret.events = <<[t |-> "retry", v |-> 0], [t |-> "sleep", v |-> 1],
                              [t |-> "retry", v |-> 1], [t |-> "sleep", v |-> 2],
                              [t |-> "retry", v |-> 2]>>

\* C37: a result that get_weather returns from the memory cache or the file
\* cache is data less than cache_duration seconds old when it is returned, also
\* when the memory entry was promoted from the file cache; and get_weather
\* makes no API request while a cache holds valid data.
C37_CachedDataIsFresh ==
    /\ weather.ret.level \in {"memory", "file"}
       => weather.ret.at - weather.ret.timestamp < CacheDuration
    /\ Requests # {} => ~weather.ret.cached

\* C38: with partial_refresh_limit >= 0 the count stays within
\* 0 .. partial_refresh_limit in every reachable state, and one update_display
\* call adds one to it, resets it to 0 or leaves it as it was.
C38_CountWithinLimit ==
    partial_refresh_limit >= 0
    => /\ 0 <= partial_refresh_count /\ partial_refresh_count <= partial_refresh_limit
       /\ Updated
          => partial_refresh_count \in {last.preCount + 1, 0, last.preCount}

C38_Witness ==
    /\ Updated /\ last.out = "ok" /\ partial_refresh_limit = 2
    /\ last.preCount = 1 /\ partial_refresh_count = partial_refresh_limit

\* C39: last_image_hash identifies the frame most recently put on the panel,
\* also after clear_display has blanked it: once a clear has gone through, the
\* stored fingerprint is no image's, and the update_display call that follows
\* it is not skipped, whatever image it renders.
C39_HashIdentifiesPanel ==
    /\ Blanked => \A image \in Images : calculate_image_hash(image) # last_image_hash
    /\ (Updated /\ last.prev.cleared) => ~last.skipped

\* C40: an update_display call with force_update = False for an image whose
\* fingerprint is the stored one is skipped: it returns False, sends nothing to
\* the panel, neither creates nor initialises the display driver, and leaves
\* last_image_hash and partial_refresh_count as they were.
C40_SkippedCallChangesNothing ==
    [][(last'.op = "update" /\ ~last'.force
            /\ calculate_image_hash(last'.image) = last_image_hash)
       => /\ last'.skipped /\ last'.ret = "False"
          /\ last'.method = "none" /\ last'.load = "kept" /\ Wire' = <<>>
          /\ display_driver' = display_driver /\ drvAttrs' = drvAttrs
          /\ last_image_hash' = last_image_hash
          /\ partial_refresh_count' = partial_refresh_count]_vars

C40_Witness ==
    /\ Updated /\ last.skipped /\ ~last.force /\ last.ret = "False"
    /\ display_driver = "EPD" /\ partial_refresh_count = 1 /\ last.preCount = 1
    /\ last_image_hash = last.preHash

====
